---- MODULE Spec2Model ----
(***************************************************************************)
(* Batched Room-to-Room navigation environment (tasks/R2R/env.py).         *)
(*                                                                         *)
(* Angles are integer degrees: math.pi is 180, one discretized turn or     *)
(* tilt is 30.  Viewpoints carry integer 3D positions; math.atan2 is a     *)
(* table of nearest-degree values for the direction vectors that occur.    *)
(* Python's 0-based list indices are kept in every value the program       *)
(* returns (action tuples, the cursor ix); TLA+ sequences are 1-based, so  *)
(* element i of a Python list is element i+1 of the sequence.              *)
(***************************************************************************)
EXTENDS Integers, Sequences, FiniteSets, TLC

VARIABLES
    data,          \* R2RBatch.data: the task pool, in its current order
    ix,            \* R2RBatch.ix: the minibatch cursor
    batch_size,    \* R2RBatch.batch_size
    batch,         \* R2RBatch.batch: the current minibatch (<<>> before the first reset)
    sims,          \* EnvBatch.sims: [agent][beam slot] -> simulator state
    world_states,  \* the pose list last returned by reset / step
    kept_states,   \* the pose list the caller kept from the last reset
    is_beamed,     \* shape of world_states: TRUE when each agent holds a beam (list)
    obs,           \* the observation list last returned by observe
    last,          \* the last call: its name, arguments and return value
    drawn,         \* tasks handed out since the last multiple of N draws
    ncalls,        \* number of _next_minibatch calls so far
    seen,          \* tasks handed out since construction
    nshuffles,     \* number of random.shuffle calls made by _next_minibatch
    nresets,       \* number of reset_epoch calls so far
    block_distinct, \* distinct tasks in the last completed block of N draws (-1: none yet)
    steps,         \* number of step calls since the last reset
    turns,         \* consecutive oracle-driven steps that were no move
    oState,        \* oracle call: the simulator state passed in
    oGoal,         \* oracle call: goalViewpointId
    oResult        \* oracle call: the returned action, or <<>> before the call

vars == <<data, ix, batch_size, batch, sims, world_states, kept_states, is_beamed,
          obs, last, drawn, ncalls, seen, nshuffles, nresets, block_distinct,
          steps, turns,
          oState, oGoal, oResult>>

mgrVars == <<data, ix, batch_size, batch>>
envVars == <<sims, world_states, kept_states, is_beamed, obs, steps, turns>>
histVars == <<drawn, ncalls, seen, nshuffles, nresets, block_distinct>>
oracleVars == <<oState, oGoal, oResult>>

-----------------------------------------------------------------------------
(* Arithmetic helpers *)

Abs(x) == IF x < 0 THEN -x ELSE x

Min(S) == CHOOSE x \in S : \A y \in S : x <= y

Range(s) == {s[i] : i \in 1..Len(s)}

Last(s) == s[Len(s)]

\* floor of the square root
ISqrt(n) == CHOOSE r \in 0..n : r * r <= n /\ n < (r + 1) * (r + 1)

\* math.pi, in degrees
PI == 180

\* atan(a/b) for 0 <= a <= b, b > 0, to the nearest degree
OctantDeg(a, b) ==
    CASE a = 0 -> 0
      [] a = b -> 45
      [] 2 * a = b -> 27
      [] 4 * a = b -> 14

\* math.atan2(y, x), to the nearest degree, in (-180, 180]
atan2(y, x) ==
    LET ay == Abs(y)
        ax == Abs(x)
        q == IF ay <= ax THEN OctantDeg(ay, ax) ELSE 90 - OctantDeg(ax, ay)
        h == IF x >= 0 THEN q ELSE PI - q
    IN IF y >= 0 THEN h ELSE -h

-----------------------------------------------------------------------------
(* Navigation graphs: utils.load_nav_graphs and R2RBatch._load_nav_graphs *)

Scans == {"s1", "s2"}

\* graphs[scan].node[v]['position']
position ==
    [v \in {"A", "B", "C", "D", "E", "F", "G", "H"} |->
        CASE v = "A" -> <<0, 0, 0>>
          [] v = "B" -> <<1, 2, 0>>
          [] v = "C" -> <<1, 4, 2>>
          [] v = "D" -> <<3, 4, 2>>
          [] v = "E" -> <<3, 0, 0>>
          [] v = "F" -> <<0, 0, 0>>
          [] v = "G" -> <<2, 2, 0>>
          [] v = "H" -> <<2, 4, 0>>]

Viewpoints(scan) == IF scan = "s1" THEN {"A", "B", "C", "D", "E"} ELSE {"F", "G", "H"}

AllViewpoints == Viewpoints("s1") \cup Viewpoints("s2")

ScanOf(v) == IF v \in Viewpoints("s1") THEN "s1" ELSE "s2"

\* the unobstructed, included connections of each scan
Edges ==
    {{"A", "B"}, {"B", "C"}, {"C", "D"}, {"A", "E"}, {"E", "D"}, {"F", "G"}, {"G", "H"}}

Neighbors(v) == {u \in AllViewpoints : {u, v} \in Edges}

\* edge weight: Euclidean distance between the positions, in tenths, rounded down
Weight(u, v) ==
    LET p == position[u]
        q == position[v]
    IN ISqrt(100 * ((p[1] - q[1]) * (p[1] - q[1]) + (p[2] - q[2]) * (p[2] - q[2])
                    + (p[3] - q[3]) * (p[3] - q[3])))

RECURSIVE PathsFrom(_, _)
\* the simple paths that extend p to d
PathsFrom(p, d) ==
    IF Last(p) = d THEN {p}
    ELSE UNION {PathsFrom(Append(p, n), d) : n \in Neighbors(Last(p)) \ Range(p)}

RECURSIVE PathWeight(_)
PathWeight(p) ==
    IF Len(p) <= 1 THEN 0 ELSE Weight(p[1], p[2]) + PathWeight(Tail(p))

\* nx.all_pairs_dijkstra_path: paths[scan][source][target], the minimum-weight path
paths ==
    [scan \in Scans |->
        [s \in Viewpoints(scan) |->
            [d \in Viewpoints(scan) |->
                CHOOSE p \in PathsFrom(<<s>>, d) :
                    \A q \in PathsFrom(<<s>>, d) : PathWeight(p) <= PathWeight(q)]]]

-----------------------------------------------------------------------------
(* The simulator (MatterSim.Simulator) with discretized viewing angles *)

\* number of discrete headings; one turn is 360 / HeadingCount degrees
HeadingCount == 12

\* one heading or elevation increment, in degrees
Increment == 360 \div HeadingCount

\* half of the horizontal field of view: vfov 60 at 640x480 gives hfov 80
HalfHFov == 40

Headings == {Increment * k : k \in 0..(HeadingCount - 1)}

Elevations == {-Increment, 0, Increment}

\* heading normalised to [0, 360) and snapped to the nearest discrete heading
SnapHeading(h) == ((((h % 360) + Increment \div 2) \div Increment) % HeadingCount) * Increment

\* elevation snapped to the nearest of the three discrete elevations
SnapElevation(e) ==
    IF 2 * e < -Increment THEN -Increment
    ELSE IF 2 * e > Increment THEN Increment
    ELSE 0

\* an angle difference brought into (-180, 180]
Normalize(a) == LET m == a % 360 IN IF m > PI THEN m - 360 ELSE m

\* a simulator after init(), before any episode
NoEpisode == [scanId |-> "", viewpointId |-> "", heading |-> 0, elevation |-> 0, step |-> 0]

\* Simulator.newEpisode(scanId, viewpointId, heading, elevation)
newEpisode(scanId, viewpointId, heading, elevation) ==
    [scanId |-> scanId, viewpointId |-> viewpointId, heading |-> SnapHeading(heading),
     elevation |-> SnapElevation(elevation), step |-> 0]

\* bearing of viewpoint v seen from viewpoint u: clockwise from the y axis, in [0, 360)
Bearing(u, v) ==
    LET b == PI \div 2 - atan2(position[v][2] - position[u][2], position[v][1] - position[u][1])
    IN IF b < 0 THEN b + 360 ELSE b

\* elevation angle of viewpoint v seen from viewpoint u
Pitch(u, v) ==
    LET dx == position[v][1] - position[u][1]
        dy == position[v][2] - position[u][2]
    IN atan2(position[v][3] - position[u][3], ISqrt(dx * dx + dy * dy))

\* one entry of navigableLocations
NavLoc(sim, v) ==
    [viewpointId |-> v,
     rel_heading |-> Normalize(Bearing(sim.viewpointId, v) - sim.heading),
     rel_elevation |-> Pitch(sim.viewpointId, v) - sim.elevation]

\* angular distance from the view centre (squared), the sort key of navigableLocations
NavKey(loc) == loc.rel_heading * loc.rel_heading + loc.rel_elevation * loc.rel_elevation

\* the lists of the locations of T in ascending order of NavKey
SortedLists(T) ==
    {q \in [1..Cardinality(T) -> T] :
        /\ Range(q) = T
        /\ \A i, j \in 1..Len(q) : i < j => NavKey(q[i]) <= NavKey(q[j])}

\* the locations of S sorted by NavKey
SortNav(S) == CHOOSE q \in UNION {SortedLists(T) : T \in {S}} : TRUE

\* Simulator.populateNavigable: the current location first, then the connected
\* viewpoints inside the horizontal field of view, nearest to the view centre first
navigableLocations(sim) ==
    <<[viewpointId |-> sim.viewpointId, rel_heading |-> 0, rel_elevation |-> 0]>>
    \o SortNav({loc \in {NavLoc(sim, v) : v \in Neighbors(sim.viewpointId)} :
                   Abs(loc.rel_heading) <= HalfHFov})

\* state.viewIndex: 12 * elevation band + heading step
viewIndex(sim) ==
    HeadingCount * ((sim.elevation + Increment) \div Increment) + sim.heading \div Increment

\* Simulator.getState()
getState(sim) ==
    CHOOSE state \in
        {[scanId |-> s.scanId,
          location |-> [viewpointId |-> s.viewpointId, point |-> position[s.viewpointId]],
          heading |-> s.heading,
          elevation |-> s.elevation,
          viewIndex |-> viewIndex(s),
          step |-> s.step,
          navigableLocations |-> navigableLocations(s)] : s \in {sim}} : TRUE

Sign(x) == IF x > 0 THEN 1 ELSE IF x < 0 THEN -1 ELSE 0

\* Simulator.makeAction(index, heading, elevation): go to navigable location index,
\* then turn and tilt by one increment in the direction of the sign of each argument
makeAction(sim, index, heading, elevation) ==
    CHOOSE next \in
        {[scanId |-> s.scanId,
          viewpointId |-> navigableLocations(s)[index + 1].viewpointId,
          heading |-> SnapHeading(s.heading + Increment * Sign(heading)),
          elevation |-> SnapElevation(s.elevation + Increment * Sign(elevation)),
          step |-> s.step + 1] : s \in {sim}} : TRUE

-----------------------------------------------------------------------------
(* The shortest-path oracle: R2RBatch._shortest_path_action *)

\* (index, heading, elevation) action tuples
NoOp == <<0, 0, 0>>
TurnRight == <<0, 1, 0>>
TurnLeft == <<0, -1, 0>>
LookUp == <<0, 0, 1>>
LookDown == <<0, 0, -1>>
Move(i) == <<i, 0, 0>>

\* variant: the heading tolerance is 45 degrees instead of 30
face_then_move_wide(i, loc, state) ==
    IF loc.rel_heading > PI \div 4 THEN TurnRight
    ELSE IF loc.rel_heading < -(PI \div 4) THEN TurnLeft
    ELSE IF loc.rel_elevation > PI \div 6 /\ state.viewIndex \div 12 < 2 THEN LookUp
    ELSE IF loc.rel_elevation < -(PI \div 6) /\ state.viewIndex \div 12 > 0 THEN LookDown
    ELSE Move(i)

\* variant: the tilt branches ignore the elevation band of the camera
face_then_move_unbanded(i, loc, state) ==
    IF loc.rel_heading > PI \div 6 THEN TurnRight
    ELSE IF loc.rel_heading < -(PI \div 6) THEN TurnLeft
    ELSE IF loc.rel_elevation > PI \div 6 THEN LookUp
    ELSE IF loc.rel_elevation < -(PI \div 6) THEN LookDown
    ELSE Move(i)

\* variant: look up only from the bottom band, look down only from the top band
face_then_move_outer_bands(i, loc, state) ==
    IF loc.rel_heading > PI \div 6 THEN TurnRight
    ELSE IF loc.rel_heading < -(PI \div 6) THEN TurnLeft
    ELSE IF loc.rel_elevation > PI \div 6 /\ state.viewIndex \div 12 = 0 THEN LookUp
    ELSE IF loc.rel_elevation < -(PI \div 6) /\ state.viewIndex \div 12 = 2 THEN LookDown
    ELSE Move(i)

\* the next viewpoint is navigable location i (0-based): face it, then move
face_then_move(i, loc, state) ==
    IF loc.rel_heading > PI \div 6 THEN TurnRight
    ELSE IF loc.rel_heading < -(PI \div 6) THEN TurnLeft
    ELSE IF loc.rel_elevation > PI \div 6 /\ state.viewIndex \div 12 < 2 THEN LookUp
    ELSE IF loc.rel_elevation < -(PI \div 6) /\ state.viewIndex \div 12 > 0 THEN LookDown
    ELSE Move(i)

\* heading of the next viewpoint relative to the y axis, in [0, 360)
target_heading(state, nextViewpointId) ==
    LET target_rel == [k \in 1..3 |-> position[nextViewpointId][k] - state.location.point[k]]
        t == PI \div 2 - atan2(target_rel[2], target_rel[1])
    IN IF t < 0 THEN t + 2 * PI ELSE t

\* variant: the turn goes the long way round, away from heading t
turn_direction_away(h, t) ==
    IF h > t /\ h - t < PI THEN TurnRight
    ELSE IF t > h /\ t - h > PI THEN TurnRight
    ELSE TurnLeft

\* variant: only the first test, without the case across the 0/360 boundary
turn_direction_no_wrap(h, t) ==
    IF h > t /\ h - t < PI THEN TurnLeft
    ELSE TurnRight

\* which way to turn from heading h toward heading t
turn_direction(h, t) ==
    IF h > t /\ h - t < PI THEN TurnLeft
    ELSE IF t > h /\ t - h > PI THEN TurnLeft
    ELSE TurnRight

\* variant: the turn is decided without neutralizing the camera elevation first
blind_action_tilted(state, nextViewpointId) ==
    turn_direction(state.heading, target_heading(state, nextViewpointId))

\* the next viewpoint is not navigable: neutralize the camera elevation, then turn
blind_action(state, nextViewpointId) ==
    IF state.viewIndex \div 12 = 0 THEN LookUp
    ELSE IF state.viewIndex \div 12 = 2 THEN LookDown
    ELSE turn_direction(state.heading, target_heading(state, nextViewpointId))

\* positions (1-based) of viewpoint v in a navigable-location list
Hits(nav, v) == {i \in 1..Len(nav) : nav[i].viewpointId = v}

\* variant: the move carries the 1-based position of the next viewpoint
toward_one_based(state, goalViewpointId) ==
    LET path == paths[state.scanId][state.location.viewpointId][goalViewpointId]
        nextViewpointId == path[2]
        nav == state.navigableLocations
    IN IF Hits(nav, nextViewpointId) # {}
       THEN LET i == Min(Hits(nav, nextViewpointId))
            IN face_then_move(i, nav[i], state)
       ELSE blind_action(state, nextViewpointId)

\* the action toward a goal that is not the current viewpoint
toward(state, goalViewpointId) ==
    LET path == paths[state.scanId][state.location.viewpointId][goalViewpointId]
        nextViewpointId == path[2]
        nav == state.navigableLocations
    IN IF Hits(nav, nextViewpointId) # {}
       THEN LET i == Min(Hits(nav, nextViewpointId))
            IN face_then_move(i - 1, nav[i], state)
       ELSE blind_action(state, nextViewpointId)

\* variant: at the goal, a tilted camera is levelled before the oracle reports no-op
shortest_path_action_level_first(state, goalViewpointId) ==
    IF state.location.viewpointId = goalViewpointId
    THEN (IF state.viewIndex \div 12 = 0 THEN LookUp
          ELSE IF state.viewIndex \div 12 = 2 THEN LookDown
          ELSE NoOp)
    ELSE toward(state, goalViewpointId)

shortest_path_action(state, goalViewpointId) ==
    IF state.location.viewpointId = goalViewpointId THEN NoOp
    ELSE toward(state, goalViewpointId)

-----------------------------------------------------------------------------
(* The task pool and the minibatch cursor: R2RBatch.__init__, _next_minibatch,
   reset_epoch *)

\* reference paths of the loaded dataset: three viewpoints each, the goal last
RefPaths ==
    <<<<"A", "B", "C">>, <<"F", "G", "H">>, <<"A", "E", "D">>, <<"H", "G", "F">>,
      <<"D", "C", "B">>, <<"C", "B", "A">>, <<"C", "D", "E">>, <<"F", "G">>>>

\* the data item with instr_id t: one instruction of the dataset, with its scan,
\* reference path, start heading (degrees) and encoded instruction length
Item(t) ==
    LET path == RefPaths[((t - 1) % Len(RefPaths)) + 1]
    IN [instr_id |-> t,
        scan |-> ScanOf(path[1]),
        path |-> path,
        heading |-> (100 * t + 20) % 360,
        instr_length |-> ((2 * t) % 3) + 3]

\* the orders random.shuffle can leave a list in: every permutation
Shuffles(d) == {[i \in 1..Len(d) |-> d[p[i]]] : p \in Permutations(1..Len(d))}

\* Python slice d[lo:hi] for 0 <= lo, 0 <= hi
Slice(d, lo, hi) == SubSeq(d, lo + 1, IF hi < Len(d) THEN hi ELSE Len(d))

RECURSIVE Insert(_, _)
\* x put into the descending list s after every element whose key is not smaller
Insert(s, x) ==
    IF s = <<>> THEN <<x>>
    ELSE IF Item(s[1]).instr_length >= Item(x).instr_length
         THEN <<s[1]>> \o Insert(Tail(s), x)
         ELSE <<x>> \o s

RECURSIVE sorted(_)
\* sorted(batch, key=lambda item: item['instr_length'], reverse=True): stable
sorted(b) == IF b = <<>> THEN <<>> ELSE Insert(sorted(SubSeq(b, 1, Len(b) - 1)), b[Len(b)])

\* variant: on a wrap the cursor is set to the batch size, as after a full batch
minibatch_skip(d, i, B, shuffled) ==
    LET head == Slice(d, i, i + B)
    IN IF Len(head) < B
       THEN [data |-> shuffled, ix |-> B, wrapped |-> TRUE,
             batch |-> head \o Slice(shuffled, 0, B - Len(head))]
       ELSE [data |-> d, ix |-> i + B, wrapped |-> FALSE, batch |-> head]

\* variant: on a wrap the unconsumed tail is dropped and the batch is the front of
\* the reshuffled pool
minibatch_drop_tail(d, i, B, shuffled) ==
    LET head == Slice(d, i, i + B)
    IN IF Len(head) < B
       THEN [data |-> shuffled, ix |-> B, wrapped |-> TRUE, batch |-> Slice(shuffled, 0, B)]
       ELSE [data |-> d, ix |-> i + B, wrapped |-> FALSE, batch |-> head]

\* variant: a batch that ends exactly at the end of the pool rewinds the cursor
minibatch_rewind(d, i, B, shuffled) ==
    LET head == Slice(d, i, i + B)
    IN IF Len(head) < B
       THEN [data |-> shuffled, ix |-> B - Len(head), wrapped |-> TRUE,
             batch |-> head \o Slice(shuffled, 0, B - Len(head))]
       ELSE [data |-> d, ix |-> (i + B) % Len(d), wrapped |-> FALSE, batch |-> head]

\* variant: on a wrap the batch is completed from the front of the old order, and the
\* pool is reshuffled afterwards
minibatch_refill(d, i, B, shuffled) ==
    LET head == Slice(d, i, i + B)
    IN IF Len(head) < B
       THEN [data |-> shuffled, ix |-> B - Len(head), wrapped |-> TRUE,
             batch |-> head \o Slice(d, 0, B - Len(head))]
       ELSE [data |-> d, ix |-> i + B, wrapped |-> FALSE, batch |-> head]

\* variant: without the wrap branch, the slice is handed out as it is and the cursor
\* always advances by the batch size
minibatch_no_wrap(d, i, B, shuffled) ==
    LET head == Slice(d, i, i + B)
    IN [data |-> d, ix |-> i + B, wrapped |-> FALSE, batch |-> head]

\* the body of _next_minibatch before the optional sort: the new pool order, cursor
\* and batch, where shuffled is the order random.shuffle leaves the pool in
minibatch(d, i, B, shuffled) ==
    LET head == Slice(d, i, i + B)
    IN IF Len(head) < B
       THEN [data |-> shuffled, ix |-> B - Len(head), wrapped |-> TRUE,
             batch |-> head \o Slice(shuffled, 0, B - Len(head))]
       ELSE [data |-> d, ix |-> i + B, wrapped |-> FALSE, batch |-> head]

\* the orders the pool can be in after the call: reshuffled on a wrap, else unchanged
ShuffleChoices ==
    IF Len(Slice(data, ix, ix + batch_size)) < batch_size THEN Shuffles(data) ELSE {data}

\* variant: with sort the whole pool is put in sorted order, not only the batch
next_minibatch_sort_pool(sort, shuffled) ==
    \E r \in {minibatch(data, ix, batch_size, shuffled)} :
        /\ data' = (IF sort THEN sorted(r.data) ELSE r.data)
        /\ ix' = r.ix
        /\ batch' = IF sort THEN sorted(r.batch) ELSE r.batch

\* _next_minibatch(sort), where shuffled is the order random.shuffle leaves the pool in
next_minibatch(sort, shuffled) ==
    \E r \in {minibatch(data, ix, batch_size, shuffled)} :
        /\ data' = r.data
        /\ ix' = r.ix
        /\ batch' = IF sort THEN sorted(r.batch) ELSE r.batch

\* bookkeeping of a _next_minibatch call: what it handed out, in pool order
Handout(sort, shuffled) ==
    \E r \in {minibatch(data, ix, batch_size, shuffled)} :
      \E stream \in {drawn \o r.batch} :
        /\ ncalls' = ncalls + 1
        /\ nshuffles' = IF r.wrapped THEN nshuffles + 1 ELSE nshuffles
        /\ seen' = seen \cup Range(r.batch)
        /\ drawn' = IF Len(stream) >= Len(data)
                    THEN SubSeq(stream, Len(data) + 1, Len(stream))
                    ELSE stream
        /\ block_distinct' = IF Len(stream) >= Len(data)
                             THEN Cardinality(Range(SubSeq(stream, 1, Len(data))))
                             ELSE block_distinct
        /\ last' = [op |-> "_next_minibatch", sort |-> sort, wrapped |-> r.wrapped]

\* largest pool size
MaxPool == 3

\* pool and batch size of the epoch-wraparound scenario
ScenarioPool == 5
ScenarioBatch == 3

\* largest number of _next_minibatch calls
MaxCalls == 5

\* largest number of reset_epoch calls
MaxEpochResets == 1

\* after __init__: the pool shuffled, the cursor at 0, no batch yet
InitBatch ==
    /\ \E N \in (1..MaxPool) \cup {ScenarioPool} :
        \E B \in 1..N :
            /\ N <= MaxPool \/ B = ScenarioBatch
            /\ data \in Shuffles([t \in 1..N |-> t])
            /\ batch_size = B
    /\ ix = 0 /\ batch = <<>>
    /\ sims = <<>> /\ world_states = <<>> /\ kept_states = <<>> /\ is_beamed = FALSE
    /\ obs = <<>> /\ last = [op |-> "init"]
    /\ drawn = <<>> /\ ncalls = 0 /\ seen = {} /\ nshuffles = 0
    /\ nresets = 0 /\ block_distinct = -1
    /\ steps = 0 /\ turns = 0
    /\ oState = <<>> /\ oGoal = "" /\ oResult = <<>>

\* a direct call of _next_minibatch(sort)
NextMinibatch ==
    /\ ncalls < MaxCalls
    /\ \E sort \in BOOLEAN, shuffled \in ShuffleChoices :
           next_minibatch(sort, shuffled) /\ Handout(sort, shuffled)
    /\ UNCHANGED <<batch_size, envVars, nresets, oracleVars>>

\* reset_epoch()
ResetEpoch ==
    /\ nresets < MaxEpochResets
    /\ ix' = 0
    /\ nresets' = nresets + 1
    /\ last' = [op |-> "reset_epoch"]
    /\ UNCHANGED <<data, batch_size, batch, envVars, drawn, ncalls, seen, nshuffles,
                   block_distinct, oracleVars>>

NextBatch == NextMinibatch \/ ResetEpoch

SpecBatch == InitBatch /\ [][NextBatch]_vars

-----------------------------------------------------------------------------
(* The simulator batch (EnvBatch) and the episodes: reset, step, observe *)

\* beam_size of R2RBatch.__init__
BeamSize == 1

\* the WorldState namedtuple
WorldState(scanId, viewpointId, heading, elevation) ==
    [scanId |-> scanId, viewpointId |-> viewpointId, heading |-> heading,
     elevation |-> elevation]

\* load_world_state(sim, world_state): sim.newEpisode(*world_state)
load_world_state(sim, world_state) ==
    newEpisode(world_state.scanId, world_state.viewpointId, world_state.heading,
               world_state.elevation)

\* get_world_state(sim)
get_world_state(sim) == WorldState(sim.scanId, sim.viewpointId, sim.heading, sim.elevation)

\* variant: the action is applied to the simulator as it stands, without loading the pose
act_no_load(sim, world_state, action) == makeAction(sim, action[1], action[2], action[3])

\* makeActions.f up to its return: the simulator after loading the pose and acting
act(sim, world_state, action) ==
    makeAction(load_world_state(sim, world_state), action[1], action[2], action[3])

\* a pose list as a list of beams: structured_map(..., nested=beamed) walks these
Beams(xs, beamed) == IF beamed THEN xs ELSE [i \in 1..Len(xs) |-> <<xs[i]>>]

\* the result of structured_map, a list of beams, in the shape of its input
Unbeam(xs, beamed) == IF beamed THEN xs ELSE [i \in 1..Len(xs) |-> xs[i][1]]

\* EnvBatch.makeActions(world_states, actions, beamed): the simulators afterwards and
\* the returned world states
makeActions(ss, poses, actions, beamed) ==
    LET ws == Beams(poses, beamed)
        as == Beams(actions, beamed)
        after == [i \in 1..Len(ws) |->
                     [j \in 1..Len(ws[i]) |-> act(ss[i][j], ws[i][j], as[i][j])]]
    IN [sims |-> [i \in 1..Len(ss) |->
                     [j \in 1..Len(ss[i]) |->
                         IF i <= Len(ws) /\ j <= Len(ws[i]) THEN after[i][j] ELSE ss[i][j]]],
        ret |-> Unbeam([i \in 1..Len(ws) |->
                           [j \in 1..Len(ws[i]) |-> get_world_state(after[i][j])]], beamed)]

\* EnvBatch.getStates(world_states, beamed): the simulators afterwards and the states
getStates(ss, poses, beamed) ==
    LET ws == Beams(poses, beamed)
        after == [i \in 1..Len(ws) |->
                     [j \in 1..Len(ws[i]) |-> load_world_state(ss[i][j], ws[i][j])]]
    IN [sims |-> [i \in 1..Len(ss) |->
                     [j \in 1..Len(ss[i]) |->
                         IF i <= Len(ws) /\ j <= Len(ws[i]) THEN after[i][j] ELSE ss[i][j]]],
        ret |-> [i \in 1..Len(ws) |-> [j \in 1..Len(ws[i]) |-> getState(after[i][j])]]]

\* variant: the poses returned are read back from the simulators after loading
newEpisodes_read_back(ss, scanIds, viewpointIds, headings, beamed) ==
    LET pose(i) == WorldState(scanIds[i], viewpointIds[i], headings[i], 0)
        back(i) == get_world_state(load_world_state(ss[i][1], pose(i)))
    IN [sims |-> [i \in 1..Len(ss) |->
                     [j \in 1..Len(ss[i]) |->
                         IF j = 1 THEN load_world_state(ss[i][1], pose(i)) ELSE ss[i][j]]],
        ret |-> [i \in 1..Len(scanIds) |-> IF beamed THEN <<back(i)>> ELSE back(i)]]

\* EnvBatch.newEpisodes(scanIds, viewpointIds, headings, beamed): the simulators
\* afterwards (beam slot 0 of each agent is loaded) and the returned world states
newEpisodes(ss, scanIds, viewpointIds, headings, beamed) ==
    LET pose(i) == WorldState(scanIds[i], viewpointIds[i], headings[i], 0)
    IN [sims |-> [i \in 1..Len(ss) |->
                     [j \in 1..Len(ss[i]) |->
                         IF j = 1 THEN load_world_state(ss[i][1], pose(i)) ELSE ss[i][j]]],
        ret |-> [i \in 1..Len(scanIds) |-> IF beamed THEN <<pose(i)>> ELSE pose(i)]]

\* variant: every observation is built from the first item of the batch
observe_item_first(b, i) == Item(b[1])

\* observe: item = self.batch[i]
observe_item(b, i) == Item(b[i])

\* observe: the observation of one state of agent i (the feature vector, the
\* navigable locations and the instruction text are left out)
Ob(b, i, state) ==
    [instr_id |-> observe_item(b, i).instr_id,
     scan |-> state.scanId,
     viewpoint |-> state.location.viewpointId,
     viewIndex |-> state.viewIndex,
     heading |-> state.heading,
     elevation |-> state.elevation,
     step |-> state.step,
     teacher |-> shortest_path_action(state, Last(observe_item(b, i).path)),
     instr_length |-> observe_item(b, i).instr_length]

\* observe: assert item['scan'] == state.scanId, for every state
ScansAgree(b, states) ==
    \A i \in 1..Len(states) : \A j \in 1..Len(states[i]) :
        observe_item(b, i).scan = states[i][j].scanId

\* R2RBatch.observe(world_states, beamed): the returned observations
observe(b, states, beamed) ==
    Unbeam([i \in 1..Len(states) |->
               [j \in 1..Len(states[i]) |-> Ob(b, i, states[i][j])]], beamed)

\* the primitive actions a caller may pass for a pose: one 30-degree turn or tilt,
\* nothing, or a move to one of the navigable locations after the current one
ValidActions(pose) ==
    {NoOp, TurnLeft, TurnRight, LookUp, LookDown}
    \cup {Move(k) : k \in 1..(Len(navigableLocations(load_world_state(NoEpisode, pose))) - 1)}

AllActions == {NoOp, TurnLeft, TurnRight, LookUp, LookDown} \cup {Move(k) : k \in 1..2}

\* the action lists a caller may pass to step for the poses (beams of length 1)
ActionLists(poses, beamed) ==
    LET ws == Beams(poses, beamed)
        valid == [i \in 1..Len(ws) |-> ValidActions(ws[i][1])]
    IN {Unbeam([i \in 1..Len(ws) |-> <<x[i]>>], beamed) :
           x \in {y \in [1..Len(ws) -> AllActions] :
                     \A i \in 1..Len(ws) : y[i] \in valid[i]}}

\* largest batch size of the episodes
MaxBatch == 2

\* largest number of step calls along one trajectory
MaxSteps == 2

\* after __init__ with a dataset of MaxBatch instructions
Init ==
    /\ \E B \in 1..MaxBatch :
        /\ batch_size = B
        /\ data \in Shuffles([t \in 1..MaxBatch |-> t])
        /\ sims = [i \in 1..B |-> [j \in 1..BeamSize |-> NoEpisode]]
    /\ ix = 0 /\ batch = <<>>
    /\ world_states = <<>> /\ kept_states = <<>> /\ is_beamed = FALSE
    /\ obs = <<>> /\ last = [op |-> "init"]
    /\ drawn = <<>> /\ ncalls = 0 /\ seen = {} /\ nshuffles = 0
    /\ nresets = 0 /\ block_distinct = -1
    /\ steps = 0 /\ turns = 0
    /\ oState = <<>> /\ oGoal = "" /\ oResult = <<>>

\* reset(sort, beamed, load_next_minibatch), called on a fresh environment, after
\* another reset or after the latest poses were observed
Reset ==
    \E sort \in BOOLEAN, beamed \in BOOLEAN, load_next_minibatch \in BOOLEAN :
        /\ steps = 0 \/ obs # <<>>
        /\ load_next_minibatch \/ batch # <<>>
        /\ IF load_next_minibatch
           THEN \E shuffled \in ShuffleChoices : next_minibatch(sort, shuffled)
           ELSE UNCHANGED <<data, ix, batch>>
        /\ IF Len(batch') = batch_size
           THEN \E r \in {newEpisodes(sims,
                                      [i \in 1..Len(batch') |-> Item(batch'[i]).scan],
                                      [i \in 1..Len(batch') |-> Item(batch'[i]).path[1]],
                                      [i \in 1..Len(batch') |-> Item(batch'[i]).heading],
                                      beamed)} :
                   /\ sims' = r.sims
                   /\ world_states' = r.ret
                   /\ kept_states' = r.ret
                   /\ is_beamed' = beamed
                   /\ last' = [op |-> "reset", sort |-> sort, beamed |-> beamed,
                               load_next_minibatch |-> load_next_minibatch,
                               failed |-> FALSE]
           ELSE /\ last' = [op |-> "reset", sort |-> sort, beamed |-> beamed,
                            load_next_minibatch |-> load_next_minibatch, failed |-> TRUE]
                /\ UNCHANGED <<sims, world_states, kept_states, is_beamed>>
        /\ obs' = <<>>
        /\ steps' = 0
        /\ turns' = 0
        /\ UNCHANGED <<batch_size, histVars, oracleVars>>

\* every simulator a call is about to use already holds the pose passed in for it
InSync(ss, poses, beamed) ==
    \A i \in 1..Len(poses) : \A j \in 1..Len(Beams(poses, beamed)[i]) :
        ss[i][j] = load_world_state(ss[i][j], Beams(poses, beamed)[i][j])

\* step(world_states, actions, beamed) on poses and actions the caller chooses
step(poses, actions) ==
    \E r \in {makeActions(sims, poses, actions, is_beamed)} :
        /\ sims' = r.sims
        /\ world_states' = r.ret
        /\ obs' = <<>>

\* step with any valid actions on the latest poses, up to MaxSteps calls in a row, and
\* then on the poses kept from reset: the caller goes back to the start of the episode
Step ==
    /\ world_states # <<>>
    /\ \E from_kept \in {steps = MaxSteps} :
        /\ \E poses \in {IF from_kept THEN kept_states ELSE world_states} :
            \E actions \in ActionLists(poses, is_beamed) :
                /\ step(poses, actions)
                /\ last' = [op |-> "step", from_kept |-> from_kept, actions |-> actions,
                            synced |-> InSync(sims, poses, is_beamed)]
        /\ steps' = IF from_kept THEN 1 ELSE steps + 1
    /\ UNCHANGED <<mgrVars, kept_states, is_beamed, turns, histVars, oracleVars>>

\* observe(world_states, beamed) on the latest poses
Observe ==
    /\ world_states # <<>>
    /\ obs = <<>>
    /\ \E r \in {getStates(sims, world_states, is_beamed)} :
        /\ sims' = r.sims
        /\ IF ScansAgree(batch, r.ret)
           THEN /\ obs' = observe(batch, r.ret, is_beamed)
                /\ last' = [op |-> "observe", failed |-> FALSE]
           ELSE /\ obs' = <<>>
                /\ last' = [op |-> "observe", failed |-> TRUE]
    /\ UNCHANGED <<mgrVars, world_states, kept_states, is_beamed, steps, turns,
                   histVars, oracleVars>>

Next == Reset \/ Step \/ Observe

Spec == Init /\ [][Next]_vars

-----------------------------------------------------------------------------
(* The simple action interface: EnvBatch.makeSimpleActions *)

\* what sys.exit leaves in place of a primitive action
SimpleExit == <<>>

\* variant: simple indices 1 and 2 turn the other way
simple_action_mirrored(index) ==
    IF index = 0 THEN <<1, 0, 0>>
    ELSE IF index = 1 THEN <<0, 1, 0>>
    ELSE IF index = 2 THEN <<0, -1, 0>>
    ELSE IF index = 3 THEN <<0, 0, 1>>
    ELSE IF index = 4 THEN <<0, 0, -1>>
    ELSE SimpleExit

\* makeSimpleActions.f: the arguments of sim.makeAction for a simple index, or the exit
simple_action(index) ==
    IF index = 0 THEN <<1, 0, 0>>
    ELSE IF index = 1 THEN <<0, -1, 0>>
    ELSE IF index = 2 THEN <<0, 1, 0>>
    ELSE IF index = 3 THEN <<0, 0, 1>>
    ELSE IF index = 4 THEN <<0, 0, -1>>
    ELSE SimpleExit

\* EnvBatch.makeSimpleActions(simple_indices, beamed): the simulators are served in
\* list order, each acting on the pose it holds; the first invalid index ends the
\* process, after the simulators before it have acted
makeSimpleActions(ss, simple_indices, beamed) ==
    LET idx == Beams(simple_indices, beamed)
        bad == {i \in 1..Len(idx) : simple_action(idx[i][1]) = SimpleExit}
        stop == IF bad = {} THEN Len(idx) + 1 ELSE Min(bad)
    IN [sims |-> [i \in 1..Len(ss) |->
                     [j \in 1..Len(ss[i]) |->
                         IF i < stop /\ i <= Len(idx) /\ j <= Len(idx[i])
                         THEN makeAction(ss[i][j], simple_action(idx[i][j])[1],
                                         simple_action(idx[i][j])[2],
                                         simple_action(idx[i][j])[3])
                         ELSE ss[i][j]]],
        exited |-> bad # {}]

\* the simple indices a caller passes: 0..4, and 5 by mistake
SimpleIndices == 0..5

\* forward is passed only to a simulator that has a navigable location 1
ValidSimple(sim) ==
    {k \in SimpleIndices : k = 0 => Len(navigableLocations(sim)) > 1}

\* the index lists a caller may pass for the simulators (beams of length 1)
SimpleLists(ss, beamed) ==
    {Unbeam([i \in 1..Len(ss) |-> <<x[i]>>], beamed) :
        x \in {y \in [1..Len(ss) -> SimpleIndices] :
                  \A i \in 1..Len(ss) : y[i] \in ValidSimple(ss[i][1])}}

\* the process has ended in sys.exit
Exited == last.op = "makeSimpleActions" /\ last.exited

\* makeSimpleActions(simple_indices, beamed) on the simulators as they stand
MakeSimpleActions ==
    /\ world_states # <<>>
    /\ ~Exited
    /\ steps < MaxSteps
    /\ \E simple_indices \in SimpleLists(sims, is_beamed) :
           \E r \in {makeSimpleActions(sims, simple_indices, is_beamed)} :
               /\ sims' = r.sims
               /\ last' = [op |-> "makeSimpleActions", simple_indices |-> simple_indices,
                           exited |-> r.exited]
    /\ steps' = steps + 1
    /\ obs' = <<>>
    /\ UNCHANGED <<mgrVars, world_states, kept_states, is_beamed, turns, histVars,
                   oracleVars>>

\* reset of a live process
ResetLive == ~Exited /\ Reset

NextSimple == ResetLive \/ MakeSimpleActions

SpecSimple == Init /\ [][NextSimple]_vars

-----------------------------------------------------------------------------
(* Oracle calls on arbitrary inputs *)

\* largest number of navigable locations after the current one
MaxNav == 1

RelHeadings == {-31, -30, 0, 30, 31}

RelElevations == {-31, -30, 0, 30, 31}

\* the navigable-location lists of a simulator at viewpoint v, after v itself: up to
\* n distinct connected viewpoints, in any order, at any relative heading and elevation
RECURSIVE NavTails(_, _)
NavTails(v, n) ==
    IF n = 0 THEN {<<>>}
    ELSE LET shorter == NavTails(v, n - 1)
         IN shorter \cup
            {Append(t, [viewpointId |-> u, rel_heading |-> rh, rel_elevation |-> re]) :
                t \in {x \in shorter : Len(x) = n - 1}, u \in Neighbors(v),
                rh \in RelHeadings, re \in RelElevations}

NoDuplicates(nav) ==
    \A i, j \in 1..Len(nav) : nav[i].viewpointId = nav[j].viewpointId => i = j

\* a state as getState() returns it, as far as the oracle reads it: at viewpoint v
\* with heading h, elevation e and the navigable locations t after v itself
OracleState(v, h, e, t) ==
    [scanId |-> ScanOf(v),
     location |-> [viewpointId |-> v, point |-> position[v]],
     heading |-> h,
     elevation |-> e,
     viewIndex |-> viewIndex([heading |-> h, elevation |-> e]),
     step |-> 0,
     navigableLocations |->
         <<[viewpointId |-> v, rel_heading |-> 0, rel_elevation |-> 0]>> \o t]

Idle ==
    /\ data = <<>> /\ ix = 0 /\ batch_size = 0 /\ batch = <<>>
    /\ sims = <<>> /\ world_states = <<>> /\ kept_states = <<>> /\ is_beamed = FALSE
    /\ obs = <<>> /\ last = [op |-> "init"]
    /\ drawn = <<>> /\ ncalls = 0 /\ seen = {} /\ nshuffles = 0
    /\ nresets = 0 /\ block_distinct = -1
    /\ steps = 0 /\ turns = 0

InitOracle ==
    /\ Idle
    /\ \E v \in Viewpoints("s1"), h \in Headings, e \in Elevations :
           \E t \in {x \in NavTails(v, MaxNav) : NoDuplicates(x)} :
               oState = OracleState(v, h, e, t)
    /\ oGoal \in Viewpoints(oState.scanId)
    /\ oResult = <<>>

\* one call of _shortest_path_action(state, goalViewpointId)
CallOracle ==
    /\ oResult = <<>>
    /\ oResult' = shortest_path_action(oState, oGoal)
    /\ UNCHANGED <<oState, oGoal, mgrVars, envVars, histVars, last>>

NextOracle == CallOracle

SpecOracle == InitOracle /\ [][NextOracle]_vars

-----------------------------------------------------------------------------
(* The cursor under reset, reset_epoch and _next_minibatch: every pool size up to
   MaxPool and every batch size up to the pool size *)

\* after __init__ with a pool of N tasks and batch_size simulators
InitCursor ==
    /\ \E N \in 1..MaxPool :
        \E B \in 1..N :
            /\ data \in Shuffles([t \in 1..N |-> t])
            /\ batch_size = B
            /\ sims = [i \in 1..B |-> [j \in 1..BeamSize |-> NoEpisode]]
    /\ ix = 0 /\ batch = <<>>
    /\ world_states = <<>> /\ kept_states = <<>> /\ is_beamed = FALSE
    /\ obs = <<>> /\ last = [op |-> "init"]
    /\ drawn = <<>> /\ ncalls = 0 /\ seen = {} /\ nshuffles = 0
    /\ nresets = 0 /\ block_distinct = -1
    /\ steps = 0 /\ turns = 0
    /\ oState = <<>> /\ oGoal = "" /\ oResult = <<>>

\* a direct call of _next_minibatch(sort), its handouts not recorded
Draw ==
    /\ \E sort \in BOOLEAN, shuffled \in ShuffleChoices :
           /\ next_minibatch(sort, shuffled)
           /\ last' = [op |-> "_next_minibatch", sort |-> sort,
                       wrapped |-> minibatch(data, ix, batch_size, shuffled).wrapped]
    /\ UNCHANGED <<batch_size, envVars, drawn, ncalls, seen, nshuffles, nresets,
                   block_distinct, oracleVars>>

NextCursor == Draw \/ ResetEpoch \/ Reset

SpecCursor == InitCursor /\ [][NextCursor]_vars

-----------------------------------------------------------------------------
(* The task pool under every operation of one agent: _next_minibatch, reset_epoch,
   reset, step and observe *)

\* after __init__ with batch size 1 and a pool of up to MaxPool tasks
InitFrame == InitCursor /\ batch_size = 1

NextFrame == Draw \/ ResetEpoch \/ Reset \/ Step \/ Observe

SpecFrame == InitFrame /\ [][NextFrame]_vars

-----------------------------------------------------------------------------
(* The blind-turn decision on arbitrary angles: every current heading and every
   target heading in [0, 360) *)

\* the angles a heading or a target heading can take, in whole degrees
Angles == 0..(2 * PI - 1)

\* what the turn decision reads: the current heading and the target heading
TurnInput(h, t) == [heading |-> h, target_heading |-> t]

InitTurn ==
    /\ Idle
    /\ \E h \in Angles, t \in Angles : oState = TurnInput(h, t)
    /\ oGoal = ""
    /\ oResult = <<>>

\* the last three statements of _shortest_path_action
CallTurn ==
    /\ oResult = <<>>
    /\ oResult' = turn_direction(oState.heading, oState.target_heading)
    /\ UNCHANGED <<oState, oGoal, mgrVars, envVars, histVars, last>>

NextTurn == CallTurn

SpecTurn == InitTurn /\ [][NextTurn]_vars

-----------------------------------------------------------------------------
(* Following the oracle: one agent observes and steps with the teacher action *)

\* more pure turn/tilt steps in a row than this are counted as this many plus one
TurnBound == 7

\* the goal of agent i: the last viewpoint of the reference path of batch[i]
Goal(i) == Last(Item(batch[i]).path)

\* one agent on any task of the dataset, at any pose of the task's scan
InitFollow ==
    /\ \E t \in 1..Len(RefPaths) :
           /\ data = <<t>> /\ batch = <<t>>
           /\ \E v \in Viewpoints(Item(t).scan), h \in Headings, e \in Elevations :
                  world_states = <<WorldState(Item(t).scan, v, h, e)>>
    /\ kept_states = world_states
    /\ ix = 1 /\ batch_size = 1
    /\ sims = <<<<NoEpisode>>>> /\ is_beamed = FALSE
    /\ obs = <<>> /\ last = [op |-> "init"]
    /\ drawn = <<>> /\ ncalls = 0 /\ seen = {} /\ nshuffles = 0
    /\ nresets = 0 /\ block_distinct = -1
    /\ steps = 0 /\ turns = 0
    /\ oState = <<>> /\ oGoal = "" /\ oResult = <<>>

\* step(world_states, actions) with the teacher actions of the latest observations,
\* until the oracle reports no-op
StepTeacher ==
    /\ obs # <<>>
    /\ \E actions \in {[i \in 1..Len(obs) |-> obs[i].teacher]} :
           /\ \E i \in 1..Len(actions) : actions[i] # NoOp
           /\ step(world_states, actions)
           /\ last' = [op |-> "step", from_kept |-> FALSE, actions |-> actions,
                       synced |-> InSync(sims, world_states, is_beamed)]
           /\ turns' = IF actions[1][1] > 0 THEN 0
                       ELSE IF turns > TurnBound THEN turns ELSE turns + 1
    /\ steps' = IF steps < MaxSteps THEN steps + 1 ELSE steps
    /\ UNCHANGED <<mgrVars, kept_states, is_beamed, histVars, oracleVars>>

NextFollow == Observe \/ StepTeacher

SpecFollow == InitFollow /\ [][NextFollow]_vars /\ WF_vars(Observe) /\ WF_vars(StepTeacher)

-----------------------------------------------------------------------------
(* Properties of the oracle, checked under SpecOracle *)

oCalled == oResult # <<>>

oAtGoal == oState.location.viewpointId = oGoal

oBand == oState.viewIndex \div 12

\* the next viewpoint on the shortest path of the oracle call (not at the goal)
oNext == paths[oState.scanId][oState.location.viewpointId][oGoal][2]

oVisible == ~oAtGoal /\ Hits(oState.navigableLocations, oNext) # {}

\* the navigable location of the next viewpoint, when it is visible
oLoc == oState.navigableLocations[Min(Hits(oState.navigableLocations, oNext))]

\* hops left on the precomputed shortest path from viewpoint v to viewpoint g
Hops(v, g) == Len(paths[ScanOf(v)][v][g]) - 1

fAt == world_states[1].viewpointId

C3_NoOpAtGoal == (oCalled /\ oAtGoal) => oResult = NoOp

\* C3 witness: an oracle call at the goal with a tilted camera and two more
\* navigable locations has returned no-op
C3_Witness ==
    /\ oCalled /\ oAtGoal /\ oBand = 2
    /\ Len(oState.navigableLocations) = MaxNav + 1
    /\ oResult = NoOp

\* C4: when the next viewpoint's relative heading exceeds 30 degrees in magnitude the
\* oracle returns no move: it returns turn right above 30 and turn left below -30
C4_TurnBeforeMove ==
    (oCalled /\ oVisible) =>
        /\ oLoc.rel_heading > 30 => oResult = TurnRight
        /\ oLoc.rel_heading < -30 => oResult = TurnLeft
        /\ Abs(oLoc.rel_heading) > 30 => oResult[1] = 0

\* C4 witness: the next viewpoint is navigable at index 1 or more, 31 degrees to the
\* left, and the oracle has returned turn left
C4_Witness ==
    /\ oCalled /\ oVisible
    /\ oLoc.rel_heading = -31
    /\ oResult = TurnLeft

\* C5: the oracle never returns look up in the top elevation band nor look down in
\* the bottom elevation band, whether or not the next viewpoint is navigable
C5_BandGating ==
    oCalled =>
        /\ ~(oResult = LookUp /\ oBand = 2)
        /\ ~(oResult = LookDown /\ oBand = 0)

\* C5 witness: in the top band, facing a next viewpoint more than 30 degrees above
\* the view centre, the oracle has returned the move to it
C5_Witness ==
    /\ oCalled /\ oVisible /\ oBand = 2
    /\ Abs(oLoc.rel_heading) <= 30 /\ oLoc.rel_elevation > 30
    /\ oResult[1] >= 1

-----------------------------------------------------------------------------
(* Properties of the minibatch cursor, checked under SpecBatch *)

NoDup(q) == Cardinality(Range(q)) = Len(q)

CeilDiv(a, b) == (a + b - 1) \div b

\* C1: without reset_epoch, the tasks handed out by successive _next_minibatch calls
\* enumerate the pool exactly once before any task comes a second time, epoch after
\* epoch: every completed block of N draws is a permutation of the pool and the
\* draws of the current block are distinct tasks of the pool
C1_EpochPermutation ==
    nresets = 0 =>
        /\ NoDup(drawn)
        /\ Range(drawn) \subseteq Range(data)
        /\ seen \subseteq Range(data)
        /\ block_distinct \in {-1, Len(data)}
        /\ block_distinct = -1 => ncalls * batch_size < Len(data)

\* C1 witness: pool 5, batch 3, no reset_epoch: the last call wrapped for at least the
\* second time and completed a block of 5 distinct tasks
C1_Witness ==
    /\ nresets = 0 /\ Len(data) = 5 /\ batch_size = 3
    /\ nshuffles >= 2 /\ last.op = "_next_minibatch" /\ last.wrapped
    /\ block_distinct = 5 /\ drawn # <<>>

\* C10: starting at cursor 0 and without reset_epoch, the minibatches of the first
\* ceil(N/B)+1 calls cover the whole pool; with N = 5 and B = 3 the first three calls
\* have visited all 5 tasks and the 4th call reshuffles the pool and takes the end of
\* its batch from the front of the reshuffled order
C10_EpochWraparound ==
    nresets = 0 =>
        /\ ncalls >= CeilDiv(Len(data), batch_size) + 1 => seen = Range(data)
        /\ (Len(data) = 5 /\ batch_size = 3 /\ ncalls = 3) => seen = Range(data)
        /\ (Len(data) = 5 /\ batch_size = 3 /\ ncalls = 4) =>
              /\ last.wrapped
              /\ ix = 2
              /\ ~last.sort => SubSeq(batch, 2, 3) = SubSeq(data, 1, 2)
              /\ Range(SubSeq(data, 1, 2)) \subseteq Range(batch)

\* C10 witness: pool 5, batch 3: the 4th call has been made, it wrapped, and all 5
\* tasks have been handed out
C10_Witness ==
    /\ nresets = 0 /\ Len(data) = 5 /\ batch_size = 3 /\ ncalls = 4
    /\ last.wrapped /\ seen = Range(data)

-----------------------------------------------------------------------------
(* Properties of reset, step and observe, checked under Spec *)

\* the poses reset returns for batch b
StartPoses(b, beamed) ==
    [i \in 1..Len(b) |->
        IF beamed
        THEN <<WorldState(Item(b[i]).scan, Item(b[i]).path[1], Item(b[i]).heading, 0)>>
        ELSE WorldState(Item(b[i]).scan, Item(b[i]).path[1], Item(b[i]).heading, 0)]

\* C6: reset returns batch_size poses, the i-th being the scan, the first viewpoint of
\* the reference path and the start heading of batch[i], at elevation 0, for the batch
\* just drawn and sorted; with beamed=True each pose is wrapped in a list of length 1
C6_ResetPoses ==
    last.op = "reset" =>
        /\ ~last.failed
        /\ Len(world_states) = batch_size
        /\ world_states = StartPoses(batch, last.beamed)
        /\ (last.sort /\ last.load_next_minibatch) =>
              \A i, j \in 1..Len(batch) :
                  i < j => Item(batch[i]).instr_length >= Item(batch[j]).instr_length

\* C6 witness: a beamed, sorted reset of two agents has returned the second agent's
\* pose, the start of task 2 at heading 220, wrapped in a list
C6_Witness ==
    /\ last.op = "reset" /\ last.beamed /\ last.sort /\ last.load_next_minibatch
    /\ batch_size = 2
    /\ world_states[2] = <<WorldState("s2", "F", 220, 0)>>

\* the simulators as EnvBatch.__init__ leaves them, before any episode
FreshSims == [i \in 1..batch_size |-> [j \in 1..BeamSize |-> NoEpisode]]

\* C7: step is a function of the poses and actions passed in: whatever the simulators
\* held before the call, its result is the result the same call gives on simulators
\* that never ran an episode
C7_StepIsPure ==
    [][last'.op = "step" =>
          \E poses \in {IF last'.from_kept THEN kept_states ELSE world_states} :
              world_states' = makeActions(FreshSims, poses, last'.actions, is_beamed).ret]_vars

\* C7 witness: a step of two agents has run on simulators that held other poses than
\* the ones passed in
C7_Witness ==
    /\ last.op = "step" /\ ~last.synced /\ last.from_kept
    /\ batch_size = 2

\* a pose with its heading snapped to the 30-degree grid
Snapped(pose) == [pose EXCEPT !.heading = SnapHeading(pose.heading)]

\* the no-op steps of a step call: the pose passed in and the pose returned, per agent
\* and beam slot, wherever the action was (0,0,0)
NoOpPairs ==
    LET poses == Beams(IF last'.from_kept THEN kept_states ELSE world_states, is_beamed)
        acts == Beams(last'.actions, is_beamed)
        rets == Beams(world_states', is_beamed)
    IN {<<poses[i][j], rets[i][j]>> :
           i \in {k \in 1..Len(poses) : acts[k][1] = NoOp}, j \in {1}}

\* C8: step(pose, (0,0,0)) returns the pose it was given, scan, viewpoint, heading and
\* elevation unchanged, for every pose reachable from reset by any sequence of steps
C8_NoOpRoundTrip ==
    [][last'.op = "step" => \A pr \in NoOpPairs : pr[2] = pr[1]]_vars

\* what a no-op step does: it keeps scan, viewpoint and elevation and snaps the heading
\* to the 30-degree grid, so it returns the pose it was given when that pose came from
\* a step, or from reset with a start heading on the grid
NoOpSnapsHeading ==
    [][last'.op = "step" =>
          \A pr \in NoOpPairs :
              /\ pr[2] = Snapped(pr[1])
              /\ pr[1].heading \in Headings => pr[2] = pr[1]
              /\ (last.op = "step" /\ ~last'.from_kept) => pr[2] = pr[1]]_vars

\* C9: observe never fails its scan check on poses that come from the latest reset
\* through step calls: the observation of agent i has the scan and the instruction id
\* of batch[i] and the teacher action toward the last viewpoint of its reference path
C9_ObserveAligned ==
    last.op = "observe" =>
        /\ ~last.failed
        /\ Len(obs) = batch_size
        /\ \A i \in 1..Len(obs) :
              \E ob \in {Beams(obs, is_beamed)[i][1]}, ws \in {Beams(world_states, is_beamed)[i][1]} :
                  /\ ob.scan = Item(batch[i]).scan
                  /\ ob.scan = ws.scanId
                  /\ ob.instr_id = Item(batch[i]).instr_id
                  /\ ob.viewpoint = ws.viewpointId
                  /\ ob.teacher =
                         shortest_path_action(getState(load_world_state(NoEpisode, ws)),
                                              Last(Item(batch[i]).path))

\* C9 witness: after two steps the second of two agents, on task 1 of scan s1, is
\* observed at viewpoint E, off its reference path and two hops from its goal C
C9_Witness ==
    /\ last.op = "observe" /\ ~last.failed /\ ~is_beamed
    /\ batch_size = 2 /\ steps = 2 /\ batch[2] = 1
    /\ obs[2].scan = "s1" /\ obs[2].viewpoint = "E"
    /\ obs[2].instr_id = Item(1).instr_id

-----------------------------------------------------------------------------
(* Properties of makeSimpleActions, checked under SpecSimple *)

\* the primitive action of each simple index, as a table
SimpleTable == <<<<1, 0, 0>>, <<0, -1, 0>>, <<0, 1, 0>>, <<0, 0, 1>>, <<0, 0, -1>>>>

\* the simple indices of the latest makeSimpleActions call, one per agent
sIdx == [i \in 1..batch_size |-> Beams(last'.simple_indices, is_beamed)[i][1]]

\* C11: makeSimpleActions applies, per agent, exactly the primitive action of the simple
\* index, 0 -> (1,0,0), 1 -> (0,-1,0), 2 -> (0,1,0), 3 -> (0,0,1), 4 -> (0,0,-1), and it
\* ends the process exactly when some index is outside 0..4
C11_SimpleActions ==
    [][last'.op = "makeSimpleActions" =>
          /\ last'.exited <=> (\E i \in 1..batch_size : sIdx[i] \notin 0..4)
          /\ ~last'.exited =>
                \A i \in 1..batch_size :
                    sims'[i][1] = makeAction(sims[i][1], SimpleTable[sIdx[i] + 1][1],
                                             SimpleTable[sIdx[i] + 1][2],
                                             SimpleTable[sIdx[i] + 1][3])]_vars

\* C11 witness: with two agents, forward for the first and turn left for the second
\* have been applied: the first agent moved from A to E, the second turned from 210
\* to 180 degrees
C11_Witness ==
    /\ last.op = "makeSimpleActions" /\ ~last.exited /\ ~is_beamed
    /\ batch_size = 2 /\ last.simple_indices = <<0, 1>>
    /\ sims[1][1].viewpointId = "E" /\ sims[2][1].heading = 180 /\ steps = 1

\* C11 second case: an index outside 0..4 has ended the process
C11_ExitReached ==
    last.op = "makeSimpleActions" /\ last.exited /\ last.simple_indices = <<1, 5>>

-----------------------------------------------------------------------------
(* Properties of the minibatch cursor as a state machine, checked under SpecBatch *)

\* a step of _next_minibatch
isDraw == ncalls' # ncalls

\* the batch the latest call stored, given the batch b it assembled
Stored(b) == IF last'.sort THEN sorted(b) ELSE b

\* the positions of task t in the list q
Positions(q, t) == {i \in 1..Len(q) : q[i] = t}

\* b holds the tasks of a, each once, in some order
Reordered(a, b) == Len(b) = Len(a) /\ \A t \in Range(a) : Cardinality(Positions(b, t)) = 1

\* the call is an epoch wrap: the pool is reshuffled, the batch is the unconsumed tail
\* followed by the front of the reshuffled pool, and the cursor is the number of tasks
\* taken from the front
WrapStep ==
    /\ last'.wrapped
    /\ Reordered(data, data')
    /\ ix' = batch_size - (Len(data) - ix)
    /\ batch' = Stored(SubSeq(data, ix + 1, Len(data)) \o SubSeq(data', 1, ix'))

\* the call is mid-epoch: no reshuffle, the batch is the next batch_size tasks and the
\* cursor advances by batch_size
MidStep ==
    /\ ~last'.wrapped
    /\ data' = data
    /\ ix' = ix + batch_size
    /\ batch' = Stored(SubSeq(data, ix + 1, ix + batch_size))

\* C12 as stated: a call made with ix >= N - batch_size is an epoch wrap, a call made
\* with ix < N - batch_size is mid-epoch
C12_WrapAtOrAfter ==
    [][isDraw => IF ix >= Len(data) - batch_size THEN WrapStep ELSE MidStep]_vars

\* C12: a call made with ix > N - batch_size (fewer than batch_size tasks left) is an
\* epoch wrap: the pool is reshuffled, the batch is the unconsumed tail followed by the
\* front of the reshuffled pool, and the cursor becomes the number of tasks taken from
\* the front; a call made with ix <= N - batch_size is mid-epoch: no reshuffle, and the
\* cursor advances by batch_size
C12_CursorMachine ==
    [][isDraw => IF ix > Len(data) - batch_size THEN WrapStep ELSE MidStep]_vars

\* C12 witness: a call made with exactly batch_size tasks left (ix = N - batch_size > 0)
\* did not wrap and left the cursor at the end of the pool
C12_Witness ==
    /\ last.op = "_next_minibatch" /\ ~last.wrapped
    /\ Len(data) = 3 /\ batch_size = 1 /\ ix = Len(data) /\ ncalls = 3 /\ nshuffles = 0
    /\ (~last.sort => batch = <<data[3]>>)

\* C12 second case: a call made with one task left and batch size 2 wrapped
C12_WrapReached ==
    /\ last.op = "_next_minibatch" /\ last.wrapped
    /\ Len(data) = 3 /\ batch_size = 2 /\ ix = 1 /\ ncalls = 2 /\ nshuffles = 1

\* 1 if task t is in the list q, else 0
Occurs(q, t) == IF t \in Range(q) THEN 1 ELSE 0

\* C17 as stated: no minibatch holds the same task at two positions, the minibatch
\* drawn on an epoch wrap included (batch_size <= N)
C17_NoRepeatInBatch ==
    (last.op = "_next_minibatch" /\ batch_size <= Len(data)) => NoDup(batch)

\* C17: a minibatch drawn without a wrap holds no task twice; the minibatch drawn on an
\* epoch wrap holds a task once for its place in the unconsumed tail of the old order
\* and once for its place in the front of the reshuffled order, so a task that is in
\* both is in the minibatch twice
C17_WithoutReplacement ==
    [][isDraw =>
          IF last'.wrapped
          THEN \A t \in Range(data) :
                   Cardinality(Positions(batch', t)) =
                       Occurs(SubSeq(data, ix + 1, Len(data)), t)
                           + Occurs(SubSeq(data', 1, ix'), t)
          ELSE NoDup(batch')]_vars

\* C17 witness: with pool size 3 and batch size 2 the wrapping call has produced a
\* minibatch that holds the same task at both positions
C17_Witness ==
    /\ last.op = "_next_minibatch" /\ last.wrapped
    /\ Len(data) = 3 /\ batch_size = 2 /\ ncalls = 2
    /\ batch[1] = batch[2]

-----------------------------------------------------------------------------
(* Properties of the oracle's tilt, blind-turn and action shape, checked under
   SpecOracle *)

\* the next viewpoint is navigable and within 30 degrees of the view centre
oFacing == oCalled /\ oVisible /\ Abs(oLoc.rel_heading) <= 30

\* the move to the navigable location of the next viewpoint (0-based index)
oMove == Move(Min(Hits(oState.navigableLocations, oNext)) - 1)

\* C13 as stated: facing the next viewpoint, the oracle looks up only from the bottom
\* band (rel_elevation > 30) and looks down only from the top band (rel_elevation < -30),
\* and in every other case it returns the move
C13_TiltFromOuterBands ==
    oFacing =>
        /\ oResult = LookUp <=> (oLoc.rel_elevation > 30 /\ oBand = 0)
        /\ oResult = LookDown <=> (oLoc.rel_elevation < -30 /\ oBand = 2)
        /\ oResult \notin {LookUp, LookDown} => oResult = oMove

\* C13: facing the next viewpoint (|rel_heading| <= 30), the oracle returns look up
\* exactly when rel_elevation > 30 and the camera is below the top band (viewIndex//12
\* < 2), look down exactly when rel_elevation < -30 and the camera is above the bottom
\* band (viewIndex//12 > 0), and in every other case the move to the next viewpoint's
\* index; in the middle band both tilts are returned
C13_TiltTowardNext ==
    oFacing =>
        /\ oResult = LookUp <=> (oLoc.rel_elevation > 30 /\ oBand < 2)
        /\ oResult = LookDown <=> (oLoc.rel_elevation < -30 /\ oBand > 0)
        /\ oResult \notin {LookUp, LookDown} => oResult = oMove

\* C13 witness: in the middle band, facing a next viewpoint 31 degrees above the view
\* centre, the oracle has returned look up
C13_Witness ==
    /\ oFacing /\ oBand = 1
    /\ oLoc.rel_heading = 30 /\ oLoc.rel_elevation = 31
    /\ oResult = LookUp

\* the next viewpoint of the oracle call is not among the navigable locations
oBlind == oCalled /\ ~oAtGoal /\ ~oVisible

\* C15: when the next viewpoint is not navigable, the oracle returns a turn (left or
\* right) only in the middle elevation band; in the bottom band it returns look up and
\* in the top band look down, so the camera is level before any blind turn
C15_LevelBeforeBlindTurn ==
    oBlind =>
        /\ oResult \in {TurnLeft, TurnRight} => oBand = 1
        /\ oBand = 0 => oResult = LookUp
        /\ oBand = 2 => oResult = LookDown
        /\ oBand = 1 => oResult \in {TurnLeft, TurnRight}

\* C15 witness: in the bottom band, with another viewpoint navigable but not the next
\* one, the oracle has returned look up
C15_Witness ==
    /\ oBlind /\ oBand = 0
    /\ Len(oState.navigableLocations) = 2
    /\ oResult = LookUp

\* the number of nonzero components of an action
Nonzero(a) == Cardinality({k \in 1..3 : a[k] # 0})

\* C19: the oracle returns (0,0,0) only at the goal; away from the goal the action has
\* exactly one nonzero component: a single turn, a single tilt, or a move whose index
\* i >= 1 is the position (0-based) of the shortest path's second viewpoint in the
\* navigable-location list
C19_OneComponent ==
    oCalled =>
        /\ oResult = NoOp => oAtGoal
        /\ ~oAtGoal =>
              /\ Nonzero(oResult) = 1
              /\ oResult[1] = 0 => oResult \in {TurnLeft, TurnRight, LookUp, LookDown}
              /\ oResult[1] # 0 =>
                    /\ oResult[1] >= 1
                    /\ oResult[1] + 1 \in Hits(oState.navigableLocations, oNext)

\* C19 witness: away from the goal, level and facing the next viewpoint, the oracle
\* has returned the move to navigable location 1, which is the path's second viewpoint
C19_Witness ==
    /\ oCalled /\ ~oAtGoal /\ oBand = 1
    /\ oResult = Move(1)
    /\ oState.navigableLocations[2].viewpointId = oNext

-----------------------------------------------------------------------------
(* Properties of the blind-turn decision, checked under SpecTurn *)

\* degrees to turn leftward (counter-clockwise) from the heading to the target
LeftAngle == (oState.heading - oState.target_heading) % (2 * PI)

\* degrees to turn rightward (clockwise) from the heading to the target
RightAngle == (oState.target_heading - oState.heading) % (2 * PI)

\* C14: for every heading h and target heading t in [0, 360) the blind turn is turn
\* left exactly when (h - t) mod 360 lies strictly between 0 and 180, and turn right
\* otherwise; the direction returned is never the longer way round
C14_BlindTurnDirection ==
    oCalled =>
        /\ oResult \in {TurnLeft, TurnRight}
        /\ oResult = TurnLeft <=> (LeftAngle > 0 /\ LeftAngle < PI)
        /\ oResult = TurnLeft => LeftAngle <= RightAngle
        /\ oResult = TurnRight => RightAngle <= LeftAngle

\* C14 witness: from heading 10 toward target heading 350, across the 0/360 boundary,
\* the decision has been turn left, 20 degrees rather than 340
C14_Witness ==
    /\ oCalled /\ oState = TurnInput(10, 350)
    /\ LeftAngle = 20 /\ RightAngle = 340
    /\ oResult = TurnLeft

-----------------------------------------------------------------------------
(* Properties of the cursor under reset, checked under SpecCursor *)

\* C18: after any sequence of reset, reset_epoch and _next_minibatch calls, with
\* 1 <= batch_size <= N, the cursor is within 0..N and the batch, once one was drawn,
\* has exactly batch_size tasks, so the assertion in reset never fails
C18_CursorInRange ==
    /\ batch_size \in 1..Len(data)
    /\ ix \in 0..Len(data)
    /\ batch # <<>> => Len(batch) = batch_size
    /\ last.op \in {"_next_minibatch", "reset"} => Len(batch) = batch_size
    /\ last.op = "reset" => ~last.failed

\* C18 witness: with pool size 3 and batch size 2, a reset that loaded its minibatch
\* on an epoch wrap has passed its assertion and started two episodes
C18_Witness ==
    /\ last.op = "reset" /\ last.load_next_minibatch /\ ~last.failed
    /\ Len(data) = 3 /\ batch_size = 2 /\ ix = 1
    /\ Len(batch) = 2 /\ Len(world_states) = 2

-----------------------------------------------------------------------------
(* Frame properties of the task pool, checked under SpecFrame *)

\* the step is a call that draws a minibatch: _next_minibatch, or reset with
\* load_next_minibatch
isLoad ==
    \/ last'.op = "_next_minibatch"
    \/ last'.op = "reset" /\ last'.load_next_minibatch

\* fewer than batch_size tasks are left at the cursor: the draw takes the wrap branch
atWrap == ix + batch_size > Len(data)

\* C16: the order of the pool changes only in the wrap branch of _next_minibatch;
\* reset_epoch sets the cursor to 0 and leaves the pool and the batch, a non-wrapping
\* draw (sorted or not) leaves the pool, reset without load_next_minibatch leaves pool,
\* cursor and batch, and so do step and observe
C16_PoolOrderFrame ==
    [][/\ data' # data => (isLoad /\ atWrap)
       /\ (isLoad /\ ~atWrap) => data' = data
       /\ last'.op = "reset_epoch" => (ix' = 0 /\ data' = data /\ batch' = batch)
       /\ (last'.op = "reset" /\ ~last'.load_next_minibatch) =>
              (data' = data /\ ix' = ix /\ batch' = batch)
       /\ last'.op \in {"step", "observe"} =>
              (data' = data /\ ix' = ix /\ batch' = batch)]_vars

\* C16 witness: after a sorted reset drew the first task of a pool of three without a
\* wrap, and a step and an observe, the pool, the cursor and the batch are as the
\* draw left them
C16_Witness ==
    /\ last.op = "observe" /\ ~last.failed /\ steps = 2
    /\ Len(data) = 3 /\ data # <<1, 2, 3>> /\ ix = 1 /\ batch = <<data[1]>>

====
